---- MODULE Spec2Model ----
(***************************************************************************)
(* Conversation handler, auto-research trigger, tolerant JSON extractor    *)
(* and completion-provider adapter of src/backend/services_v2.py, with     *)
(* the callers of src/backend/api_server.py and src/ai-services/app_v2.py. *)
(*                                                                         *)
(* Python dict objects live in `heap` and are handled through references,  *)
(* so that aliasing (two names for one dict) and in-place mutation are     *)
(* visible.  A dict value keeps one slot per key; Absent marks a key that  *)
(* the dict does not hold.  Python values are named by tokens and str()    *)
(* of a token is given by StrForm as a sequence of characters.             *)
(*                                                                         *)
(* Conversation turns (Spec, ConcSpec) run with no backing store           *)
(* configured, so that save_memory keeps records in the in-process cache.  *)
(* StoreSpec calls save_memory and load_memory with and without the        *)
(* Supabase table.  SynopsisSpec, ExtractorSpec, SearchSpec and           *)
(* QualitySpec apply the document renderer, the JSON extractor, the        *)
(* repository search and the quality analysis of                           *)
(* src/backend/github_services_v2.py to inputs drawn from bounded sets.    *)
(* LegacySpec runs the turns of the older pipeline of src/services.py.     *)
(*                                                                         *)
(* get_openrouter_client as written raises on every call, so no text ever  *)
(* comes back from the provider.  client_double = TRUE is the environment  *)
(* in which a double stands in for it and hands get_ai_response a client;  *)
(* the code behind line 103 is then run as written.  Properties are        *)
(* checked over both environments.                                         *)
(***************************************************************************)
EXTENDS Integers, Sequences, FiniteSets, TLC

----------------------------------------------------------------------------
(* Bounds *)

MaxTurns == 2

Procs == {"p1"}
Sessions == {"s1"}
ObjIds == {"o1", "o2", "o3", "o4", "o5", "o6", "o7", "o8", "o9"}
Exceptions == {"timeout", "http401"}

\* the sessions and requests of the specifications with more than one
SessionPair == {"s1", "s2"}
ProcPair == {"p1", "p2"}

----------------------------------------------------------------------------
(* Program constants *)

\* services_v2.py:295  len(str(v).strip()) > 10
MinFilledLen == 10
\* services_v2.py:300  len(filled_fields) >= 3
FilledThreshold == 3
\* app_v2.py:454  filled_fields >= 4
SynopsisOfferThreshold == 4

Absent == "absent"
NoRef == "none"
\* a value that is not a dict (JSON null, string, number, list)
NonDict == "nondict"

----------------------------------------------------------------------------
(* Strings *)

RECURSIVE Rep(_, _)
Rep(n, c) == IF n = 0 THEN << >> ELSE <<c>> \o Rep(n - 1, c)

IsSpace(c) == c = " "

RECURSIVE LStrip(_)
LStrip(s) == IF s # << >> /\ IsSpace(Head(s)) THEN LStrip(Tail(s)) ELSE s

RECURSIVE RStrip(_)
RStrip(s) ==
    IF s # << >> /\ IsSpace(s[Len(s)]) THEN RStrip(SubSeq(s, 1, Len(s) - 1)) ELSE s

\* str.strip()
Strip(s) == RStrip(LStrip(s))

\* str() of the research_results dicts a memory can hold:
\* the five formatted sections (services_v2.py:212-218; 123 characters when
\* every section has its default), {'error': ''} and {'error': None}
StrRRFull == Rep(140, "r")
StrRRDefaults == Rep(123, "r")
StrRRErrEmpty == Rep(13, "r")
StrRRErrNone == Rep(15, "r")

\* str(v) of the values a memory dict holds in this model
StrForm(v) ==
    CASE v = "T11"  -> Rep(11, "x")
      [] v = "T10p" -> <<" ">> \o Rep(10, "x") \o <<" ">>
      [] v = "True" -> <<"T", "r", "u", "e">>
      [] v = "RR_full"      -> StrRRFull
      [] v = "RR_defaults"  -> StrRRDefaults
      [] v = "RR_err_empty" -> StrRRErrEmpty
      [] v = "RR_err_none"  -> StrRRErrNone
      [] OTHER -> << >>

\* Python truthiness: a missing key reads as None; None, the empty string
\* and the empty list are false, every other value of this model is true
Truthy(v) == v \notin {Absent, "None", "EmptyStr", "EmptyList"}

----------------------------------------------------------------------------
(* Memory dicts *)

FieldKeys == {"title", "objective_scope", "process_description"}
MemKeys == FieldKeys \cup {"auto_research_done", "research_results",
                            "synopsis_offer_shown"}

EmptyMem == [k \in MemKeys |-> Absent]

\* the memories a caller or the provider's JSON can carry; the prompt's
\* format (services_v2.py:247-256) has no synopsis_offer_shown
Mems ==
    [title : {Absent, "T11"},
     objective_scope : {Absent, "T11"},
     process_description : {Absent, "T10p", "T11"},
     auto_research_done : {Absent, "True"},
     research_results : {Absent, "RR_full"},
     synopsis_offer_shown : {Absent}]

\* dict.items()
Items(m) == {k \in MemKeys : m[k] # Absent}

\* dict.get(k)  (None when the key is absent)
Get(m, k) == m[k]

\* filled_fields with the .strip() of line 295 left out
filled_fields_unstripped(m) ==
    {k \in Items(m) : Truthy(m[k]) /\ Len(StrForm(m[k])) > MinFilledLen}

\* services_v2.py:295
filled_fields(m) ==
    {k \in Items(m) : Truthy(m[k]) /\ Len(Strip(StrForm(m[k]))) > MinFilledLen}

\* services_v2.py:300
should_research(m) ==
    Cardinality(filled_fields(m)) >= FilledThreshold
        /\ ~Truthy(Get(m, "auto_research_done"))

----------------------------------------------------------------------------
(* State *)

VARIABLES
    api_key,               \* OPENROUTER_API_KEY is set in the environment
    client_double,         \* get_openrouter_client is bound to a test double
    in_process,            \* the caller is app_v2.py (TRUE) or an HTTP client
    heap,                  \* dict objects: reference -> memory value
    _local_memory_cache,   \* services_v2.py:38, session id -> reference
    synopsis_memory,       \* the caller's memory of each session (reference)
    pc,                    \* position of each request
    frame,                 \* locals of handle_natural_conversation
    ret,                   \* what the request gave its caller
    trace,                 \* external calls of the request, in order
    turns,                 \* conversation turns started
    reported,              \* a turn of the session returned auto_research_triggered
    supabase_configured,   \* SUPABASE_URL and SUPABASE_KEY are set
    _supabase_client,      \* services_v2.py:36
    user_sessions,         \* research_data of the table's row of each session id
    last_saved,            \* the memory each session's last save_memory was given
    last_call              \* the call under observation: arguments and result

vars == <<api_key, client_double, in_process, heap, _local_memory_cache,
          synopsis_memory, pc, frame, ret, trace, turns, reported,
          supabase_configured, _supabase_client, user_sessions, last_saved,
          last_call>>

config == <<api_key, client_double, in_process>>

backing_store == <<supabase_configured, _supabase_client, user_sessions>>

observer == <<last_saved, last_call>>

NoText == [kind |-> "none", exc |-> ""]

\* result names what get_structured_ai_response gave the turn (ResultKind);
\* memory_at_call records the value of current_memory when the turn began
NoFrame ==
    [session_id |-> NoRef, current_memory |-> NoRef, result |-> "none",
     updated_memory |-> NoRef, updated_fields |-> {}, ai_response |-> << >>,
     missing_info |-> "[]", memory_at_call |-> EmptyMem]

NoRet ==
    [kind |-> "none", exc |-> "", response |-> << >>, updated_memory |-> NoRef,
     updated_fields |-> {}, missing_info |-> "[]",
     auto_research_triggered |-> FALSE, research_results |-> "{}",
     status |-> "", body |-> NoText]

NoCall == [fn |-> "none"]

\* a session id with no row in the table
NoRow == [present |-> FALSE, research_data |-> EmptyMem]

\* a session id save_memory was never called for
\* (replaced: the call came after a call with another memory)
NoSave == [memory |-> EmptyMem, outcome |-> "none", replaced |-> FALSE]

\* app_v2.py:237: the caller starts from load_memory(session_id); with an
\* empty cache that is a fresh empty dict (services_v2.py:368)
Init ==
    /\ api_key \in BOOLEAN
    /\ client_double \in BOOLEAN
    /\ in_process \in BOOLEAN
    /\ heap = [o \in {"o1"} |-> EmptyMem]
    /\ _local_memory_cache = [s \in Sessions |-> NoRef]
    /\ synopsis_memory = [s \in Sessions |-> "o1"]
    /\ pc = [p \in Procs |-> "idle"]
    /\ frame = [p \in Procs |-> NoFrame]
    /\ ret = [p \in Procs |-> NoRet]
    /\ trace = [p \in Procs |-> << >>]
    /\ turns = 0
    /\ reported = [s \in Sessions |-> FALSE]
    /\ supabase_configured = FALSE
    /\ _supabase_client = "None"
    /\ user_sessions = [s \in Sessions |-> NoRow]
    /\ last_saved = [s \in Sessions |-> NoSave]
    /\ last_call = NoCall

----------------------------------------------------------------------------
(* Heap *)

IsObj(r) == r \in ObjIds

Alloc(h) == CHOOSE o \in ObjIds : o \notin DOMAIN h

\* references held by the store, the callers and the running requests
Live(cache, sm, fr, rt) ==
    {cache[s] : s \in DOMAIN cache} \cup {sm[s] : s \in DOMAIN sm}
        \cup {fr[p].current_memory : p \in DOMAIN fr}
        \cup {fr[p].updated_memory : p \in DOMAIN fr}
        \cup {rt[p].updated_memory : p \in DOMAIN rt}

\* objects no reference reaches are reclaimed
Collect(h, live) == [o \in (DOMAIN h) \cap live |-> h[o]]

----------------------------------------------------------------------------
(* Completion provider: what the model's text parses to *)

JsonKeys == {"error", "updated_memory", "updated_fields", "ai_response",
             "missing_info", "sections"}

\* a JSON object: the keys it holds and their values (slots of keys it does
\* not hold are never read)
NoKeys ==
    [keys |-> {}, error |-> Absent, raw_response |-> NoText,
     um_kind |-> Absent, updated_memory |-> EmptyMem, updated_fields |-> {},
     ai_response |-> <<"reply">>, missing_info |-> "needs"]

NonObject(k) == [kind |-> k, body |-> NoKeys]

\* content that is None, empty, prose, or JSON that is not an object
NonObjects == {NonObject(k) : k \in {"null", "empty", "garbage", "json_list"}}

\* the extraction objects: every key of the prompt's format
\* (services_v2.py:247-260) with updated_memory a dict or not a dict, the
\* same without updated_memory and with ai_response a string or null, no
\* key at all, and an object with a truthy "error"
PromptKeys == {"updated_memory", "updated_fields", "ai_response", "missing_info"}

ExtractionObjects ==
    {[kind |-> "json_obj",
      body |-> [NoKeys EXCEPT !.keys = PromptKeys, !.um_kind = "dict",
                              !.updated_memory = m, !.updated_fields = uf]] :
        m \in Mems, uf \in {{}, {"title"}}}
    \cup
    {[kind |-> "json_obj",
      body |-> [NoKeys EXCEPT !.keys = PromptKeys, !.um_kind = NonDict,
                              !.updated_fields = uf]] :
        uf \in {{}, {"title"}}}
    \cup
    {[kind |-> "json_obj",
      body |-> [NoKeys EXCEPT !.keys = PromptKeys \ {"updated_memory"},
                              !.updated_fields = uf, !.ai_response = ar]] :
        uf \in {{}, {"title"}}, ar \in {<<"reply">>, <<"null">>}}
    \cup
    {[kind |-> "json_obj", body |-> NoKeys],
     [kind |-> "json_obj", body |-> [NoKeys EXCEPT !.keys = {"error"}, !.error = "msg"]]}

ExtractionContents == NonObjects \cup ExtractionObjects

\* the research objects: the five sections (services_v2.py:184-201), no key
\* at all, and an object with a truthy "error"
ResearchContents ==
    NonObjects \cup
    {[kind |-> "json_obj", body |-> [NoKeys EXCEPT !.keys = ks, !.error = e]] :
        ks \in {{"sections"}, {}, {"error"}}, e \in {"msg"}}

\* text shown as it is, for the callers that do not parse it
PlainContents == {NonObject(k) : k \in {"null", "empty", "garbage"}}

\* services_v2.py:71-96.  Line 74 reads the local openrouter_api_key that
\* line 82 binds later, so the function raises UnboundLocalError on every
\* call.  A double bound in its place returns a client when the key is set
\* and None when it is not.
get_openrouter_client ==
    IF ~client_double THEN "UnboundLocalError"
    ELSE IF api_key THEN "client" ELSE "None"

\* an outcome of get_ai_response; event names the completion call it made:
\* "complete" when the call returned, the exception when it raised, "none"
\* when no call was made
Raised(e) == [kind |-> "raise", exc |-> e, event |-> "none", text |-> NoText, body |-> NoKeys]

Returned(t, b, ev) == [kind |-> "return", exc |-> "", event |-> ev, text |-> t, body |-> b]

Called(tr, o) == IF o.event = "none" THEN tr ELSE Append(tr, o.event)

\* services_v2.py:115: the text returned when the completion call raises e
error_text(e) == [kind |-> "errmsg", exc |-> e]

\* services_v2.py:101-115: the outcomes of one call, for a completion that
\* returns one of `contents` or raises one of Exceptions
get_ai_response(contents) ==
    LET client == get_openrouter_client IN
    IF client = "UnboundLocalError" THEN {Raised(client)}
    ELSE IF client = "None"
         THEN {Returned([kind |-> "unconfigured", exc |-> ""], NoKeys, "none")}
    ELSE {Returned([kind |-> c.kind, exc |-> ""], c.body, "complete") : c \in contents}
            \cup {Returned(error_text(e), NoKeys, e) : e \in Exceptions}

\* services_v2.py:117-157, applied to an outcome of get_ai_response:
\* a raise of line 125 propagates; None content raises at line 130 and
\* again, uncaught, at line 156; a JSON object, alone (line 145) or inside
\* other text (lines 148-151), is returned as it is; other JSON values (a
\* list, a number, a quoted string, true, false, null) are returned by
\* line 145 though they are not dicts; everything else, text with braces
\* that hold no JSON included, becomes the error record of line 157
get_structured_ai_response(o) ==
    IF o.kind = "raise" THEN [kind |-> "raise", exc |-> o.exc, body |-> NoKeys]
    ELSE IF o.text.kind = "null"
         THEN [kind |-> "raise", exc |-> "TypeError", body |-> NoKeys]
    ELSE IF o.text.kind \in {"json_obj", "embedded_obj"}
         THEN [kind |-> "dict", exc |-> "", body |-> o.body]
    ELSE IF o.text.kind \in {"json_list", "json_scalar"}
         THEN [kind |-> NonDict, exc |-> "", body |-> NoKeys]
    ELSE [kind |-> "dict", exc |-> "",
          body |-> [NoKeys EXCEPT !.keys = {"error", "raw_response"},
                                  !.error = "msg", !.raw_response = o.text]]

\* dict.get(k, default)
JGet(b, k, default) == IF k \in b.keys THEN b[k] ELSE default

\* the kind of value get_structured_ai_response produced: "raise", NonDict,
\* "error_record" (line 157) or "object" (a parsed JSON object)
ResultKind(r) ==
    IF r.kind # "dict" THEN r.kind
    ELSE IF "raw_response" \in r.body.keys THEN "error_record" ELSE "object"

----------------------------------------------------------------------------
(* Memory Store, in-process *)

\* save_memory writing the record under every session id
save_memory_any_key(cache, session_id, memory) == [s \in DOMAIN cache |-> memory]

\* save_memory keeping the record a session id already has
save_memory_keep_first(cache, session_id, memory) ==
    IF cache[session_id] = NoRef THEN [cache EXCEPT ![session_id] = memory] ELSE cache

\* services_v2.py:380-382: the write with no backing store
save_memory(cache, session_id, memory) == [cache EXCEPT ![session_id] = memory]

\* _local_memory_cache.get(session_id, {}) of services_v2.py:368 and 376,
\* as the value of the dict it returns
cache_get(cache, h, session_id) ==
    IF IsObj(cache[session_id]) THEN h[cache[session_id]] ELSE EmptyMem

\* services_v2.py:44-65: what one call returns (and binds to the global);
\* created tells whether create_client succeeds when it is called
get_supabase_client(created) ==
    IF _supabase_client # "None" THEN _supabase_client
    ELSE IF ~supabase_configured THEN "None"
    ELSE IF created THEN "client" ELSE "None"

\* create_client is reached only with the variables set and no client yet
ClientOutcomes ==
    IF supabase_configured /\ _supabase_client = "None" THEN BOOLEAN ELSE {FALSE}

\* how a request to the table ends: it succeeds, it fails before the row
\* is written, or it fails after the row was written
TableOutcomes == {"ok", "error", "error_after_write"}

\* the memories the callers of StoreSpec save
StoreMems ==
    {m \in Mems : /\ m.objective_scope = Absent
                  /\ m.process_description = Absent
                  /\ m.auto_research_done = Absent
                  /\ m.title # Absent}

\* services_v2.py:378-397, one call save_memory(s, memory) with a dict
\* the caller built: written to the cache when there is no client, else to
\* the table; an exception of the table is caught and printed (line 397)
SaveMemory(s) ==
    \E m \in StoreMems, created \in ClientOutcomes, table \in TableOutcomes :
        LET client == get_supabase_client(created)
            memory == Alloc(heap)
            h1 == (memory :> m) @@ heap
            cache1 == IF client = "None"
                      THEN save_memory(_local_memory_cache, s, memory)
                      ELSE _local_memory_cache
            outcome == IF client = "None" THEN "cached"
                       ELSE IF table = "ok" THEN "written" ELSE "failed"
        IN /\ _supabase_client' = client
           /\ _local_memory_cache' = cache1
           /\ heap' = Collect(h1, Live(cache1, synopsis_memory, frame, ret))
           /\ user_sessions' = IF client # "None" /\ table # "error"
                               THEN [user_sessions EXCEPT ![s] = [present |-> TRUE, research_data |-> m]]
                               ELSE user_sessions
           /\ last_saved' = [last_saved EXCEPT ![s] =
                                [memory |-> m, outcome |-> outcome,
                                 replaced |-> @.outcome # "none" /\ @.memory # m]]
           /\ last_call' = [fn |-> "save_memory", session_id |-> s,
                            source |-> outcome, result |-> "None"]
           /\ UNCHANGED <<config, supabase_configured, synopsis_memory, pc, frame,
                          ret, trace, turns, reported>>

\* services_v2.py:365-376, one call load_memory(s): the cache when there is
\* no client, the row's research_data (or {} when there is no row or it is
\* empty) when the select succeeds, the cache when it raises
LoadMemory(s) ==
    \E created \in ClientOutcomes, table \in {"ok", "error"} :
        LET client == get_supabase_client(created)
            source == IF client = "None" THEN "cache"
                      ELSE IF table = "ok" THEN "table" ELSE "fallback"
            result == IF source = "table"
                      THEN IF user_sessions[s].present THEN user_sessions[s].research_data ELSE EmptyMem
                      ELSE cache_get(_local_memory_cache, heap, s)
        IN /\ _supabase_client' = client
           /\ last_call' = [fn |-> "load_memory", session_id |-> s,
                            source |-> source, result |-> result]
           /\ UNCHANGED <<config, supabase_configured, user_sessions, last_saved,
                          heap, _local_memory_cache, synopsis_memory, pc, frame,
                          ret, trace, turns, reported>>

\* the state of the conversation turns in a process that runs none
turn_vars == <<heap, _local_memory_cache, synopsis_memory, pc, frame, ret,
               trace, turns, reported>>

NoTurns ==
    /\ heap = << >>
    /\ _local_memory_cache = [s \in SessionPair |-> NoRef]
    /\ synopsis_memory = [s \in SessionPair |-> NoRef]
    /\ pc = [p \in Procs |-> "idle"]
    /\ frame = [p \in Procs |-> NoFrame]
    /\ ret = [p \in Procs |-> NoRet]
    /\ trace = [p \in Procs |-> << >>]
    /\ turns = 0
    /\ reported = [s \in SessionPair |-> FALSE]

\* a process that has served no request yet, with or without the
\* SUPABASE_URL and SUPABASE_KEY variables
StoreInit ==
    /\ api_key = TRUE
    /\ client_double = TRUE
    /\ in_process = FALSE
    /\ NoTurns
    /\ supabase_configured \in BOOLEAN
    /\ _supabase_client = "None"
    /\ user_sessions = [s \in SessionPair |-> NoRow]
    /\ last_saved = [s \in SessionPair |-> NoSave]
    /\ last_call = NoCall

StoreNext ==
    \/ \E s \in SessionPair : SaveMemory(s)
    \/ \E s \in SessionPair : LoadMemory(s)

StoreSpec == StoreInit /\ [][StoreNext]_vars

----------------------------------------------------------------------------
(* Auto-research *)

\* research_results.get("error") of what auto_research_project returned
research_error(rr) ==
    CASE rr = "RR_err_raw"   -> "msg"
      [] rr = "RR_err_empty" -> "EmptyStr"
      [] rr = "RR_err_none"  -> "None"
      [] OTHER -> Absent

\* services_v2.py:204-221, applied to an outcome of get_ai_response.
\* Line 209 returns {"error": raw_response}: the raw text of the error
\* record, which is '' for empty content, and None for an object that has
\* "error" but no "raw_response".  The body is run on every call: the no-op
\* cache_data of lines 23-30; under Streamlit a repeated call with an equal
\* argument gives an earlier result again without the completion call.
auto_research_project(o) ==
    LET research_results == get_structured_ai_response(o) IN
    IF research_results.kind = "raise"
    THEN [kind |-> "raise", exc |-> research_results.exc, value |-> "{}"]
    ELSE IF research_results.kind = NonDict
    THEN [kind |-> "raise", exc |-> "AttributeError", value |-> "{}"]
    ELSE IF Truthy(JGet(research_results.body, "error", Absent))
    THEN [kind |-> "value", exc |-> "",
          value |-> IF "raw_response" \notin research_results.body.keys
                        THEN "RR_err_none"
                    ELSE IF research_results.body.raw_response.kind = "empty"
                        THEN "RR_err_empty"
                    ELSE "RR_err_raw"]
    ELSE [kind |-> "value", exc |-> "",
          value |-> IF "sections" \in research_results.body.keys
                        THEN "RR_full" ELSE "RR_defaults"]

----------------------------------------------------------------------------
(* Conversation handler *)

\* error_result answering with the default reply of line 287
error_result_default_reply(fr) ==
    [NoRet EXCEPT !.kind = "result", !.response = <<"default_reply">>,
                  !.updated_memory = fr.current_memory,
                  !.updated_fields = {}, !.missing_info = "[]",
                  !.auto_research_triggered = FALSE, !.research_results = "{}"]

\* services_v2.py:276-283
error_result(fr) ==
    [NoRet EXCEPT !.kind = "result", !.response = <<"apology">>,
                  !.updated_memory = fr.current_memory,
                  !.updated_fields = {}, !.missing_info = "[]",
                  !.auto_research_triggered = FALSE, !.research_results = "{}"]

\* services_v2.py:310-317
turn_result(fr, triggered, rr) ==
    [NoRet EXCEPT !.kind = "result", !.response = fr.ai_response,
                  !.updated_memory = fr.updated_memory,
                  !.updated_fields = fr.updated_fields,
                  !.missing_info = fr.missing_info,
                  !.auto_research_triggered = triggered,
                  !.research_results = rr]

raise_result(e) == [NoRet EXCEPT !.kind = "raise", !.exc = e]

\* merge_saves writing on every turn
merge_saves_always(updated_fields) == TRUE

\* services_v2.py:290
merge_saves(updated_fields) == updated_fields # {}

\* research_succeeded taking a result without the sections for a failure
research_succeeded_sections_only(rr) == rr = "RR_full"

\* services_v2.py:302
research_succeeded(rr) == ~Truthy(research_error(rr))

\* the request of p ends: it returns or raises r
Finish(p, r, fr, tr, h, cache) ==
    /\ pc' = [pc EXCEPT ![p] = IF r.kind = "raise" THEN "raised" ELSE "returned"]
    /\ ret' = [ret EXCEPT ![p] = r]
    /\ frame' = [frame EXCEPT ![p] = fr]
    /\ trace' = [trace EXCEPT ![p] = tr]
    /\ _local_memory_cache' = cache
    /\ heap' = Collect(h, Live(cache, synopsis_memory, frame', ret'))
    /\ UNCHANGED <<config, backing_store, observer, synopsis_memory, turns, reported>>

\* app_v2.py:409-414 and api_server.py:60-65: a caller starts a turn with
\* its memory of the session, the dict itself in process and a decoded
\* copy over HTTP
StartTurn(p, s) ==
    /\ pc[p] = "idle"
    /\ turns < MaxTurns
    /\ LET new == Alloc(heap)
           cur == IF in_process THEN synopsis_memory[s] ELSE new
           h1 == IF in_process THEN heap
                 ELSE (new :> heap[synopsis_memory[s]]) @@ heap
       IN /\ frame' = [frame EXCEPT ![p] =
                          [NoFrame EXCEPT !.session_id = s,
                                          !.current_memory = cur,
                                          !.updated_memory = NoRef,
                                          !.memory_at_call = h1[cur]]]
          /\ heap' = h1
    /\ pc' = [pc EXCEPT ![p] = "extract"]
    /\ turns' = turns + 1
    /\ trace' = [trace EXCEPT ![p] = << >>]
    /\ UNCHANGED <<config, backing_store, observer, _local_memory_cache, synopsis_memory, ret, reported>>

\* services_v2.py:270-300: the extraction completion comes back with one
\* of `contents` and the handler runs up to its return or to the call of
\* auto_research_project
ExtractionStep(p, contents) ==
    /\ pc[p] = "extract"
    /\ \E o \in get_ai_response(contents) :
        LET result == get_structured_ai_response(o)
            fr == [frame[p] EXCEPT !.result = ResultKind(result)]
            tr == Called(<< >>, o)
            b == result.body
            new == Alloc(heap)
            updated_memory ==
                IF "updated_memory" \notin b.keys THEN fr.current_memory
                ELSE IF b.um_kind = "dict" THEN new ELSE NonDict
            h1 == IF updated_memory = new
                  THEN (new :> b.updated_memory) @@ heap ELSE heap
            updated_fields == JGet(b, "updated_fields", {})
            fr1 == [fr EXCEPT !.updated_memory = updated_memory,
                              !.updated_fields = updated_fields,
                              !.ai_response = JGet(b, "ai_response", <<"default_reply">>),
                              !.missing_info = JGet(b, "missing_info", "[]")]
            cache1 == IF merge_saves(updated_fields)
                      THEN save_memory(_local_memory_cache, fr.session_id, updated_memory)
                      ELSE _local_memory_cache
            tr1 == IF merge_saves(updated_fields) THEN Append(tr, "save") ELSE tr
        IN
        IF result.kind = "raise"
            THEN Finish(p, raise_result(result.exc), fr, tr, heap, _local_memory_cache)
        ELSE IF result.kind = NonDict
            \* line 275: result.get on a list, number or string
            THEN Finish(p, raise_result("AttributeError"), fr, tr, heap, _local_memory_cache)
        ELSE IF Truthy(JGet(b, "error", Absent))
            THEN Finish(p, error_result(fr), fr, tr, heap, _local_memory_cache)
        ELSE IF updated_memory = NonDict
            \* line 295: updated_memory.items() on a value that is not a dict
            THEN Finish(p, raise_result("AttributeError"), fr1, tr1, h1, cache1)
        ELSE IF should_research(h1[updated_memory])
            THEN /\ pc' = [pc EXCEPT ![p] = "research"]
                 /\ frame' = [frame EXCEPT ![p] = fr1]
                 /\ trace' = [trace EXCEPT ![p] = Append(tr1, "research")]
                 /\ _local_memory_cache' = cache1
                 /\ heap' = Collect(h1, Live(cache1, synopsis_memory, frame', ret))
                 /\ UNCHANGED <<config, backing_store, observer, synopsis_memory, ret, turns, reported>>
        ELSE Finish(p, turn_result(fr1, FALSE, "{}"), fr1, tr1, h1, cache1)

ExtractionReturns(p) == ExtractionStep(p, ExtractionContents)

\* ResearchReturns calling auto_research_project again when it fails
ResearchReturns_retry(p) ==
    /\ pc[p] = "research"
    /\ \E o \in get_ai_response(ResearchContents) :
        LET r == auto_research_project(o)
            fr == frame[p]
            tr == Called(trace[p], o)
            h1 == [heap EXCEPT ![fr.updated_memory] =
                      [@ EXCEPT !.auto_research_done = "True",
                                !.research_results = r.value]]
            cache1 == save_memory(_local_memory_cache, fr.session_id, fr.updated_memory)
        IN
        IF r.kind = "raise"
            THEN Finish(p, raise_result(r.exc), fr, tr, heap, _local_memory_cache)
        ELSE IF research_succeeded(r.value)
            THEN Finish(p, turn_result(fr, TRUE, r.value), fr, Append(tr, "save"), h1, cache1)
        ELSE /\ trace' = [trace EXCEPT ![p] = Append(tr, "research")]
             /\ UNCHANGED <<config, backing_store, observer, heap, _local_memory_cache, synopsis_memory,
                            pc, frame, ret, turns, reported>>

\* services_v2.py:301-317: the research completion comes back
ResearchReturns(p) ==
    /\ pc[p] = "research"
    /\ \E o \in get_ai_response(ResearchContents) :
        LET r == auto_research_project(o)
            fr == frame[p]
            tr == Called(trace[p], o)
            h1 == [heap EXCEPT ![fr.updated_memory] =
                      [@ EXCEPT !.auto_research_done = "True",
                                !.research_results = r.value]]
            cache1 == save_memory(_local_memory_cache, fr.session_id, fr.updated_memory)
            fr1 == [fr EXCEPT !.ai_response = Append(@, "note")]
        IN
        IF r.kind = "raise"
            THEN Finish(p, raise_result(r.exc), fr, tr, heap, _local_memory_cache)
        ELSE IF research_succeeded(r.value)
            THEN Finish(p, turn_result(fr, TRUE, r.value), fr, Append(tr, "save"), h1, cache1)
        ELSE IF fr.ai_response = <<"null">>
            \* line 308: None += str
            THEN Finish(p, raise_result("TypeError"), fr, tr, heap, _local_memory_cache)
        ELSE Finish(p, turn_result(fr1, FALSE, r.value), fr1, tr, heap, _local_memory_cache)

\* api_server.py:183-211 and 105-119 with services_v2.py:339-360: the
\* routes that hand the text of get_ai_response to the user, and answer
\* 500 with str(e) when the call raises
DirectCall(p) ==
    /\ pc[p] = "idle"
    /\ ~in_process
    /\ \E o \in get_ai_response(PlainContents) :
        LET r == IF o.kind = "raise"
                 THEN [NoRet EXCEPT !.kind = "http", !.status = "500",
                                    !.body = [kind |-> "exception", exc |-> o.exc]]
                 ELSE [NoRet EXCEPT !.kind = "http", !.status = "200", !.body = o.text]
        IN Finish(p, r, frame[p], Called(<< >>, o), heap, _local_memory_cache)

\* app_v2.py:451-454: the chat input handler offers the synopsis once the
\* returned memory has 4 filled fields and the offer is not recorded
synopsis_offer(r, h) ==
    /\ in_process
    /\ r.kind = "result"
    /\ Cardinality(filled_fields(h[r.updated_memory])) >= SynopsisOfferThreshold
    /\ ~Truthy(Get(h[r.updated_memory], "synopsis_offer_shown"))

\* app_v2.py:417-482 and the HTTP client: the caller keeps the memory a
\* turn returned for the next turn; after a raise it keeps what it had.
\* The chat input handler then records the synopsis offer in that memory
\* and writes it to the Memory Store (lines 463-464).
Deliver(p) ==
    /\ pc[p] \in {"returned", "raised"}
    /\ LET s == frame[p].session_id
           sm == IF ret[p].kind = "result"
                 THEN [synopsis_memory EXCEPT ![s] = ret[p].updated_memory]
                 ELSE synopsis_memory
           offer == synopsis_offer(ret[p], heap)
           h1 == IF offer
                 THEN [heap EXCEPT ![sm[s]] = [@ EXCEPT !.synopsis_offer_shown = "True"]]
                 ELSE heap
           cache1 == IF offer THEN save_memory(_local_memory_cache, s, sm[s])
                     ELSE _local_memory_cache
       IN /\ synopsis_memory' = sm
          /\ reported' = IF ret[p].kind = "result"
                         THEN [reported EXCEPT ![s] = @ \/ ret[p].auto_research_triggered]
                         ELSE reported
          /\ frame' = [frame EXCEPT ![p] = NoFrame]
          /\ ret' = [ret EXCEPT ![p] = NoRet]
          /\ _local_memory_cache' = cache1
          /\ heap' = Collect(h1, Live(cache1, sm, frame', ret'))
    /\ pc' = [pc EXCEPT ![p] = "idle"]
    /\ trace' = [trace EXCEPT ![p] = << >>]
    /\ UNCHANGED <<config, backing_store, observer, turns>>

Next ==
    \/ \E p \in Procs, s \in Sessions : StartTurn(p, s)
    \/ \E p \in Procs : ExtractionReturns(p)
    \/ \E p \in Procs : ResearchReturns(p)
    \/ \E p \in Procs : DirectCall(p)
    \/ \E p \in Procs : Deliver(p)

Spec == Init /\ [][Next]_vars

----------------------------------------------------------------------------
(* Concurrent turns *)

\* two sessions, each caller starting from its own load_memory result
\* (app_v2.py:237), and two requests that the server runs at once
ConcInit ==
    /\ api_key = TRUE
    /\ client_double = TRUE
    /\ in_process \in BOOLEAN
    /\ heap = [o \in {"o1", "o2"} |-> EmptyMem]
    /\ _local_memory_cache = [s \in SessionPair |-> NoRef]
    /\ synopsis_memory = ("s1" :> "o1") @@ ("s2" :> "o2")
    /\ pc = [p \in ProcPair |-> "idle"]
    /\ frame = [p \in ProcPair |-> NoFrame]
    /\ ret = [p \in ProcPair |-> NoRet]
    /\ trace = [p \in ProcPair |-> << >>]
    /\ turns = 0
    /\ reported = [s \in SessionPair |-> FALSE]
    /\ supabase_configured = FALSE
    /\ _supabase_client = "None"
    /\ user_sessions = [s \in SessionPair |-> NoRow]
    /\ last_saved = [s \in SessionPair |-> NoSave]
    /\ last_call = NoCall

\* the replies of the concurrent turns: those of ExtractionContents that
\* carry no research_results, no auto_research_done and no padded value
ConcContents ==
    {c \in ExtractionContents :
        /\ c.body.updated_memory.research_results = Absent
        /\ c.body.updated_memory.auto_research_done = Absent
        /\ c.body.updated_memory.process_description # "T10p"
        /\ c.body.ai_response = <<"reply">>}

\* a request is p1 unless p1 is busy; the Streamlit script of a session
\* runs one chat input at a time, the HTTP server runs the requests it is
\* sent at once (api_server.py:56-71)
ConcNext ==
    \/ \E p \in ProcPair, s \in SessionPair :
            /\ p = "p2" => pc["p1"] # "idle"
            /\ in_process => \A q \in ProcPair : frame[q].session_id # s
            /\ StartTurn(p, s)
    \/ \E p \in ProcPair : ExtractionStep(p, ConcContents)
    \/ \E p \in ProcPair : ResearchReturns(p)
    \/ \E p \in ProcPair : Deliver(p)

ConcSpec == ConcInit /\ [][ConcNext]_vars

----------------------------------------------------------------------------
(* Document renderer *)

\* no backing store, as in the conversation turns
NoStore ==
    /\ supabase_configured = FALSE
    /\ _supabase_client = "None"
    /\ user_sessions = [s \in SessionPair |-> NoRow]
    /\ last_saved = [s \in SessionPair |-> NoSave]

\* services_v2.py:466-548: the headings of the ten sections, in order
Headings ==
    <<"1. INTRODUCTION", "2. LITERATURE REVIEW", "3. PROBLEM STATEMENT",
      "4. OBJECTIVES AND SCOPE", "5. METHODOLOGY", "6. SYSTEM REQUIREMENTS",
      "7. FEASIBILITY ANALYSIS", "8. IMPLEMENTATION PLAN",
      "9. EXPECTED OUTCOMES", "10. REFERENCES">>

\* the default texts of lines 467, 473, 479, 485, 491, 537, 543 and 549;
\* the code has none for sections 6 and 7
Placeholders ==
    [h \in {Headings[i] : i \in DOMAIN Headings}
            \ {"6. SYSTEM REQUIREMENTS", "7. FEASIBILITY ANALYSIS"} |->
        CASE h = "1. INTRODUCTION" -> "Project introduction will be detailed here."
          [] h = "2. LITERATURE REVIEW" ->
                "Comprehensive literature review of related work in the domain."
          [] h = "3. PROBLEM STATEMENT" ->
                "The problem statement will outline the key challenges addressed by this project."
          [] h = "4. OBJECTIVES AND SCOPE" ->
                "Project objectives and scope will be defined here."
          [] h = "5. METHODOLOGY" -> "Detailed methodology and technical approach."
          [] h = "8. IMPLEMENTATION PLAN" ->
                "Detailed implementation plan with timeline and milestones."
          [] h = "9. EXPECTED OUTCOMES" -> "Expected outcomes and impact of the project."
          [] h = "10. REFERENCES" ->
                "References will be added based on research conducted."]

\* the memories load_memory hands the renderer: the keys it reads, with a
\* text, an empty text, null, a list of references, the research results
\* a turn stored, and research_results that is not a dict
RenderMems ==
    [objective_scope : {Absent, "None", "EmptyStr", "T11"},
     process_description : {Absent, "EmptyStr", "T11"},
     conclusion : {Absent, "T11"},
     references : {Absent, "T11", "EmptyList", "list"},
     research_results : {Absent, "RR_full", "RR_defaults", "RR_err_empty", NonDict}]

EmptyRenderMem ==
    [objective_scope |-> Absent, process_description |-> Absent,
     conclusion |-> Absent, references |-> Absent, research_results |-> Absent]

NoSections ==
    [introduction |-> Absent, literature_review |-> Absent, methodology |-> Absent,
     system_requirements |-> Absent, feasibility_analysis |-> Absent]

\* the dict a research_results token stands for: services_v2.py:212-218
\* with every section given, with every section at its default ("" and
\* the dump of {}), and {"error": ...} of line 209
research_dict(rr) ==
    CASE rr = "RR_full" ->
            [introduction |-> "introduction text",
             literature_review |-> "literature_review text",
             methodology |-> "methodology text",
             system_requirements |-> "json_sections",
             feasibility_analysis |-> "json_sections"]
      [] rr = "RR_defaults" ->
            [introduction |-> "EmptyStr", literature_review |-> "EmptyStr",
             methodology |-> "EmptyStr", system_requirements |-> "json_empty",
             feasibility_analysis |-> "json_empty"]
      [] OTHER -> NoSections

\* d.get(k, default)
DictGet(d, k, default) == IF d[k] = Absent THEN default ELSE d[k]

\* services_v2.py:426-429: the text of the paragraph, "" for a false value
clean_text(text) == IF ~Truthy(text) THEN "" ELSE text

\* services_v2.py:497-513 and 518-532: one sub-heading and its entries for
\* each key of the parsed dict, nothing for a dict with no key
structured_body(raw) ==
    IF raw = "json_sections" THEN <<"sub-heading", "entries">> ELSE << >>

\* services_v2.py:550-551
join_references(refs) ==
    CASE refs = "EmptyList" -> "EmptyStr"
      [] refs = "list" -> "joined references"
      [] OTHER -> refs

\* services_v2.py:406-557 for the memory load_memory returned: the
\* sections of the story handed to doc.build, or the exception of line 467
\* when research_results has no get
generate_comprehensive_synopsis(memory) ==
    IF memory.research_results = NonDict
    THEN [raised |-> TRUE, exc |-> "AttributeError", sections |-> << >>]
    ELSE
    LET research_results == research_dict(memory.research_results)
        P == Placeholders
        body(h) ==
            CASE h = "1. INTRODUCTION" ->
                    <<clean_text(DictGet(research_results, "introduction",
                                  DictGet(memory, "objective_scope", P[h])))>>
              [] h = "2. LITERATURE REVIEW" ->
                    <<clean_text(DictGet(research_results, "literature_review", P[h]))>>
              [] h = "3. PROBLEM STATEMENT" ->
                    <<clean_text(DictGet(memory, "objective_scope", P[h]))>>
              [] h = "4. OBJECTIVES AND SCOPE" ->
                    <<clean_text(DictGet(memory, "objective_scope", P[h]))>>
              [] h = "5. METHODOLOGY" ->
                    <<clean_text(DictGet(research_results, "methodology",
                                  DictGet(memory, "process_description", P[h])))>>
              [] h = "6. SYSTEM REQUIREMENTS" ->
                    structured_body(research_results.system_requirements)
              [] h = "7. FEASIBILITY ANALYSIS" ->
                    structured_body(research_results.feasibility_analysis)
              [] h = "8. IMPLEMENTATION PLAN" ->
                    <<clean_text(DictGet(memory, "process_description", P[h]))>>
              [] h = "9. EXPECTED OUTCOMES" ->
                    <<clean_text(DictGet(memory, "conclusion", P[h]))>>
              [] h = "10. REFERENCES" ->
                    <<clean_text(join_references(
                        DictGet(memory, "references",
                            DictGet(research_results, "literature_review", P[h]))))>>
    IN [raised |-> FALSE, exc |-> "",
        sections |-> [i \in DOMAIN Headings |->
                        [heading |-> Headings[i], body |-> body(Headings[i])]]]

\* a call of generate_comprehensive_synopsis about to be made for a session
\* whose memory is one of RenderMems
SynopsisInit ==
    /\ api_key = TRUE
    /\ client_double = TRUE
    /\ in_process = FALSE
    /\ NoTurns
    /\ NoStore
    /\ last_call \in {[fn |-> "generate_comprehensive_synopsis", memory |-> m,
                       done |-> FALSE, raised |-> FALSE, exc |-> "",
                       sections |-> << >>] : m \in RenderMems}

\* api_server.py:121-150 and app_v2.py:493-535: the document is rendered
GenerateSynopsis ==
    /\ last_call.fn = "generate_comprehensive_synopsis"
    /\ ~last_call.done
    /\ LET r == generate_comprehensive_synopsis(last_call.memory)
       IN last_call' = [last_call EXCEPT !.done = TRUE, !.raised = r.raised,
                                         !.exc = r.exc, !.sections = r.sections]
    /\ UNCHANGED <<config, backing_store, last_saved, turn_vars>>

SynopsisNext == GenerateSynopsis

SynopsisSpec == SynopsisInit /\ [][SynopsisNext]_vars

----------------------------------------------------------------------------
(* JSON extractor *)

\* the contents of the completions get_structured_ai_response is applied
\* to: those of the turns, a JSON number, string or literal, text with
\* braces that hold no JSON, and a JSON object inside other text
TextContents ==
    ExtractionContents \cup ResearchContents
        \cup {NonObject(k) : k \in {"json_scalar", "braces"}}
        \cup {[kind |-> "embedded_obj", body |-> c.body] : c \in ResearchContents}

\* a process about to call get_structured_ai_response
ExtractorInit ==
    /\ api_key \in BOOLEAN
    /\ client_double \in BOOLEAN
    /\ in_process = FALSE
    /\ NoTurns
    /\ NoStore
    /\ last_call = NoCall

\* services_v2.py:117-157: one call, on whatever get_ai_response gives
Extract ==
    /\ \E o \in get_ai_response(TextContents) :
        last_call' = [fn |-> "get_structured_ai_response", response |-> o,
                      result |-> get_structured_ai_response(o)]
    /\ UNCHANGED <<config, backing_store, last_saved, turn_vars>>

ExtractorNext == Extract

ExtractorSpec == ExtractorInit /\ [][ExtractorNext]_vars

----------------------------------------------------------------------------
(* Repository search *)

\* the longest search response
MaxItems == 6

\* github_services_v2.py:217  if i <= 5
DetailedRanks == 5

Min(a, b) == IF a < b THEN a ELSE b

Queries == {"EmptyStr", "None", "q"}
Limits == {0, 1, 3, 10}

\* an item of the search response: with every field, without the optional
\* ones (description, language, forks_count), or without full_name, which
\* lines 218, 235 and 300 index
ItemKinds == {"complete", "no_optional", "no_required"}

\* what requests.get or raise_for_status raise at lines 207-208:
\* ConnectionError, Timeout, HTTPError, all of them RequestException
TransportFailures == {"network_error", "timeout", "http_error"}

\* search responses: the request fails, or it returns up to MaxItems items
\* of which at most one is not complete
Responses ==
    {[status |-> f, items |-> << >>] : f \in TransportFailures} \cup
    {[status |-> "ok",
      items |-> [i \in 1..n |-> IF i = odd.at THEN odd.kind ELSE "complete"]] :
        n \in 0..MaxItems,
        odd \in {[at |-> 0, kind |-> "complete"]}
                    \cup [at : 1..MaxItems, kind : ItemKinds \ {"complete"}]}

\* the ranks whose detail fetch fails (github_services_v2.py:101-103)
FailedDetails == {{}} \cup {{i} : i \in 1..DetailedRanks}

\* github_services_v2.py:230: the element "GitHub API Error: Could not
\* fetch repositories. Please try again later.", which is no summary
ErrorElement == [rank |-> 0, format |-> "error", details |-> "none"]

\* github_services_v2.py:211-226: the formatting of the items of a
\* response, the ranks up to detailed with a detail fetch each; an item
\* without full_name raises KeyError at line 218 (before its detail fetch)
\* or at line 300, and the except clause of line 228 does not catch it
format_ranked(limit, response, failed, detailed) ==
    LET items == SubSeq(response.items, 1, Min(limit, Len(response.items)))
        bad == {i \in DOMAIN items : items[i] = "no_required"}
        first_bad == IF bad = {} THEN Len(items) + 1
                     ELSE CHOOSE i \in bad : \A j \in bad : i <= j
        summary(i) ==
            IF i <= detailed
            THEN [rank |-> i, format |-> "analysis",
                  details |-> IF i \in failed THEN "defaults" ELSE "fetched"]
            ELSE [rank |-> i, format |-> "basic", details |-> "none"]
    IN IF bad # {}
       THEN [raised |-> TRUE, exc |-> "KeyError", result |-> << >>,
             search_requests |-> 1,
             detail_fetches |-> Min(first_bad - 1, detailed)]
       ELSE [raised |-> FALSE, exc |-> "",
             result |-> [i \in DOMAIN items |-> summary(i)],
             search_requests |-> 1,
             detail_fetches |-> Min(Len(items), detailed)]

\* format_items fetching the details of every rank
format_items_all_detailed(limit, response, failed) ==
    format_ranked(limit, response, failed, MaxItems + 1)

\* github_services_v2.py:211-226, with  if i <= 5  of line 217
format_items(limit, response, failed) ==
    format_ranked(limit, response, failed, DetailedRanks)

\* search_request with an except clause that lets HTTPError through
search_request_uncaught(query, limit, response, failed) ==
    IF response.status = "http_error"
    THEN [raised |-> TRUE, exc |-> "HTTPError", result |-> << >>,
          search_requests |-> 1, detail_fetches |-> 0]
    ELSE IF response.status \in TransportFailures
    THEN [raised |-> FALSE, exc |-> "", result |-> <<ErrorElement>>,
          search_requests |-> 1, detail_fetches |-> 0]
    ELSE format_items(limit, response, failed)

\* github_services_v2.py:191-230: the search request; a transport
\* failure is caught at line 228 and gives the one-element list of line
\* 230, otherwise the items are formatted
search_request(query, limit, response, failed) ==
    IF response.status \in TransportFailures
    THEN [raised |-> FALSE, exc |-> "", result |-> <<ErrorElement>>,
          search_requests |-> 1, detail_fetches |-> 0]
    ELSE format_items(limit, response, failed)

\* search_github_repos sending the request whatever the query
search_github_repos_any_query(query, limit, response, failed) ==
    search_request(query, limit, response, failed)

\* github_services_v2.py:174-230
search_github_repos(query, limit, response, failed) ==
    IF ~Truthy(query)
    THEN [raised |-> FALSE, exc |-> "", result |-> << >>,
          search_requests |-> 0, detail_fetches |-> 0]
    ELSE search_request(query, limit, response, failed)

\* a call of search_github_repos about to be made, and what the search
\* provider would answer
SearchInit ==
    /\ api_key = TRUE
    /\ client_double = TRUE
    /\ in_process = FALSE
    /\ NoTurns
    /\ NoStore
    /\ last_call \in [fn : {"search_github_repos"}, query : Queries, limit : Limits,
                      response : Responses, failed : FailedDetails,
                      done : {FALSE}, out : {search_request("q", 1,
                            [status |-> "timeout", items |-> << >>], {})}]

\* services_v2.py:322-327, app_v2.py:497 and 526: the search is called
Search ==
    /\ last_call.fn = "search_github_repos"
    /\ ~last_call.done
    /\ last_call' = [last_call EXCEPT
                        !.done = TRUE,
                        !.out = search_github_repos(last_call.query, last_call.limit,
                                    last_call.response, last_call.failed)]
    /\ UNCHANGED <<config, backing_store, last_saved, turn_vars>>

SearchNext == Search

SearchSpec == SearchInit /\ [][SearchNext]_vars

----------------------------------------------------------------------------
(* Repository quality *)

\* the largest topic and language counts of a detail record
MaxTopics == 4
MaxLanguages == 2

\* stars around the tier limits of lines 112, 115, 118
StarCounts == {0, 10, 11, 100, 101, 1000, 1001}

\* updated_at of a detail record: None, a text that strptime rejects, or a
\* date that many days before now (negative: a date after now)
UpdateTimes ==
    {[kind |-> "none", days |-> 0], [kind |-> "invalid", days |-> 0]}
        \cup {[kind |-> "date", days |-> d] :
                d \in {0 - 1, 0, 29, 30, 89, 90, 364, 365}}

\* {} , what get_repository_details returns at line 103
EmptyDetails ==
    [present |-> FALSE, stars |-> 0, updated_at |-> [kind |-> "none", days |-> 0],
     has_documentation |-> FALSE, license |-> FALSE, languages |-> 0, topics |-> 0]

\* the detail records: {} or the record of lines 81-99, here with the six
\* keys that analyze_repository_quality reads (license: whether it has a
\* name; languages, topics: how many)
DetailRecords ==
    {EmptyDetails} \cup
    [present : {TRUE}, stars : StarCounts, updated_at : UpdateTimes,
     has_documentation : BOOLEAN, license : BOOLEAN,
     languages : 0..MaxLanguages, topics : 0..MaxTopics]

\* github_services_v2.py:163-165
quality_level(quality_score) ==
    IF quality_score >= 70 THEN "Excellent"
    ELSE IF quality_score >= 50 THEN "Good"
    ELSE IF quality_score >= 30 THEN "Fair"
    ELSE "Basic"

\* the activity tiers with the second limit at 60 days
activity_score_60(updated_at) ==
    IF updated_at.kind # "date" THEN 0
    ELSE IF updated_at.days < 30 THEN 25
    ELSE IF updated_at.days < 60 THEN 15
    ELSE IF updated_at.days < 365 THEN 5
    ELSE 0

\* github_services_v2.py:123-139: nothing for None (line 124) and for a
\* text strptime rejects (lines 138-139)
activity_score(updated_at) ==
    IF updated_at.kind # "date" THEN 0
    ELSE IF updated_at.days < 30 THEN 25
    ELSE IF updated_at.days < 90 THEN 15
    ELSE IF updated_at.days < 365 THEN 5
    ELSE 0

\* github_services_v2.py:105-171, the factors left out; every key is read
\* with .get, so {} scores as a record of zeros
analyze_repository_quality(repo_details) ==
    LET stars_score ==
            IF repo_details.stars > 1000 THEN 30
            ELSE IF repo_details.stars > 100 THEN 20
            ELSE IF repo_details.stars > 10 THEN 10
            ELSE 0
        quality_score ==
            stars_score
            + activity_score(repo_details.updated_at)
            + (IF repo_details.has_documentation THEN 15 ELSE 0)
            + (IF repo_details.license THEN 10 ELSE 0)
            + (IF repo_details.languages > 1 THEN 10 ELSE 0)
            + (IF repo_details.topics > 3 THEN 10 ELSE 0)
    IN [score |-> Min(quality_score, 100), level |-> quality_level(quality_score)]

\* a detail record about to be analysed
QualityInit ==
    /\ api_key = TRUE
    /\ client_double = TRUE
    /\ in_process = FALSE
    /\ NoTurns
    /\ NoStore
    /\ last_call \in [fn : {"analyze_repository_quality"}, details : DetailRecords,
                      done : {FALSE}, out : {[score |-> 0, level |-> "Basic"]}]

\* github_services_v2.py:219: the analysis of a fetched detail record
Analyze ==
    /\ last_call.fn = "analyze_repository_quality"
    /\ ~last_call.done
    /\ last_call' = [last_call EXCEPT
                        !.done = TRUE,
                        !.out = analyze_repository_quality(last_call.details)]
    /\ UNCHANGED <<config, backing_store, last_saved, turn_vars>>

QualityNext == Analyze

QualitySpec == QualityInit /\ [][QualityNext]_vars

----------------------------------------------------------------------------
(* Legacy pipeline: src/services.py *)

\* what the legacy get_structured_ai_response (services.py:58-72) gives
\* extract_synopsis_info: always a dict, the parsed object or {"content":
\* text}; here the keys the merge and the handler read, with a field
\* missing, empty, or a text, and keys the merge does not read
LegacyResults ==
    [title : {"EmptyStr", "T10p", "T11"},
     objective_scope : {Absent, "T11"},
     process_description : {Absent, "T11"},
     auto_research_done : {Absent, "False"},
     research_results : {Absent},
     synopsis_offer_shown : {Absent},
     updated_fields : {{}, {"title"}}]

\* the memories a session starts a legacy turn with: research_results is
\* there exactly when auto_research_done is (services.py:284-285)
LegacyMems ==
    {m \in Mems : /\ m.auto_research_done = "True" <=> m.research_results = "RR_full"
                  /\ m.objective_scope = m.title
                  /\ m.process_description # "T10p"}

\* the merge overwriting a field with whatever the key holds
legacy_merge_any_value(current, result) ==
    [k \in MemKeys |->
        IF k \in FieldKeys /\ result[k] # Absent THEN result[k] ELSE current[k]]

\* services.py:111-115: the value of updated_memory after the loop over
\* the synopsis fields, on a copy of current_memory
legacy_merge(current, result) ==
    [k \in MemKeys |->
        IF k \in FieldKeys /\ Truthy(result[k]) THEN result[k] ELSE current[k]]

\* a process that imported services.py (lines 18-36: the store and the
\* provider are configured, or the import raises) and a caller with the
\* memory of its session
LegacyInit ==
    /\ api_key = TRUE
    /\ client_double = TRUE
    /\ in_process = TRUE
    /\ \E m \in LegacyMems : heap = [o \in {"o1"} |-> m]
    /\ _local_memory_cache = [s \in Sessions |-> NoRef]
    /\ synopsis_memory = [s \in Sessions |-> "o1"]
    /\ pc = [p \in Procs |-> "idle"]
    /\ frame = [p \in Procs |-> NoFrame]
    /\ ret = [p \in Procs |-> NoRet]
    /\ trace = [p \in Procs |-> << >>]
    /\ turns = 0
    /\ reported = [s \in Sessions |-> FALSE]
    /\ supabase_configured = TRUE
    /\ _supabase_client = "client"
    /\ user_sessions = [s \in Sessions |-> NoRow]
    /\ last_saved = [s \in Sessions |-> NoSave]
    /\ last_call = NoCall

\* services.py:246-301 with 77-124 and 193-241: one turn of the legacy
\* handler, from the call to the return, and the caller keeping the
\* returned memory.  The merge works on current_memory.copy(); the write
\* of line 254 happens when updated_fields is not empty; the research of
\* lines 281-287 always gives its five sections (get_ai_response returns
\* a text on every path), sets the flag and writes again; save_memory
\* (lines 353-374) prints an exception of the table and goes on.
LegacyTurn(p, s) ==
    /\ turns < MaxTurns
    /\ \E result \in LegacyResults, table \in {"ok", "error"} :
        LET current_memory == synopsis_memory[s]
            updated_memory == Alloc(heap)
            merged == legacy_merge(heap[current_memory], result)
            h1 == (updated_memory :> merged) @@ heap
            triggered == should_research(merged)
            h2 == IF triggered
                  THEN [h1 EXCEPT ![updated_memory] =
                          [@ EXCEPT !.auto_research_done = "True",
                                    !.research_results = "RR_full"]]
                  ELSE h1
            saved == result.updated_fields # {} \/ triggered
            fr == [NoFrame EXCEPT !.session_id = s,
                                  !.current_memory = current_memory,
                                  !.result = "object",
                                  !.updated_memory = updated_memory,
                                  !.updated_fields = result.updated_fields,
                                  !.ai_response = <<"reply">>,
                                  !.memory_at_call = heap[current_memory]]
            sm == [synopsis_memory EXCEPT ![s] = updated_memory]
        IN /\ frame' = [frame EXCEPT ![p] = fr]
           /\ ret' = [ret EXCEPT ![p] =
                        turn_result(fr, triggered, IF triggered THEN "RR_full" ELSE "{}")]
           /\ trace' = [trace EXCEPT ![p] =
                          <<"complete">>
                          \o (IF result.updated_fields # {} THEN <<"save">> ELSE << >>)
                          \o <<"complete">>
                          \o (IF triggered
                              THEN <<"research">> \o Rep(5, "complete") \o <<"save">>
                              ELSE << >>)]
           /\ synopsis_memory' = sm
           /\ heap' = Collect(h2, Live(_local_memory_cache, sm, frame', ret'))
           /\ user_sessions' =
                IF saved /\ table = "ok"
                THEN [user_sessions EXCEPT ![s] =
                        [present |-> TRUE, research_data |-> h2[updated_memory]]]
                ELSE user_sessions
           /\ last_saved' =
                IF saved
                THEN [last_saved EXCEPT ![s] =
                        [memory |-> h2[updated_memory],
                         outcome |-> IF table = "ok" THEN "written" ELSE "failed",
                         replaced |-> @.outcome # "none" /\ @.memory # h2[updated_memory]]]
                ELSE last_saved
           /\ last_call' = [fn |-> "extract_synopsis_info", result |-> result,
                            memory |-> merged,
                            researched_before |-> reported[s]]
           /\ reported' = [reported EXCEPT ![s] = @ \/ triggered]
    /\ turns' = turns + 1
    /\ UNCHANGED <<config, supabase_configured, _supabase_client,
                   _local_memory_cache, pc>>

LegacyNext == \E p \in Procs, s \in Sessions : LegacyTurn(p, s)

LegacySpec == LegacyInit /\ [][LegacyNext]_vars

----------------------------------------------------------------------------
(* Properties *)

TypeOK ==
    /\ DOMAIN heap \subseteq ObjIds
    /\ \A p \in Procs : pc[p] \in {"idle", "extract", "research", "returned", "raised"}
    /\ turns \in 0..MaxTurns

Completions == {"complete"} \cup Exceptions

NumEvents(tr, E) == Cardinality({i \in DOMAIN tr : tr[i] \in E})

\* p is running a turn of handle_natural_conversation
InTurn(p) == frame[p].session_id \in Sessions

\* a value whose trimmed string form is longer than 10 characters
LongValue(v) == v # Absent /\ Len(Strip(StrForm(v))) > 10

NumLong(m) == Cardinality({k \in MemKeys : LongValue(m[k])})

\* C1: a turn whose current_memory has auto_research_done = true does not
\* call auto_research_project and, when it returns, returns
\* auto_research_triggered = false, whatever the provider's text.
C1_NoResearchWhenDone ==
    \A p \in Procs :
        InTurn(p) /\ frame[p].memory_at_call.auto_research_done = "True"
            => /\ NumEvents(trace[p], {"research"}) = 0
               /\ (pc[p] = "returned" => ~ret[p].auto_research_triggered)

\* C2: after a successful extraction auto_research_project is invoked
\* exactly once when the adopted memory has at least 3 values longer than
\* 10 characters after trimming and auto_research_done is not set, and not
\* at all otherwise; a successful research returns auto_research_triggered
\* = true with auto_research_done = true and research_results set to the
\* research output in the returned memory.
C2_ResearchIffThreshold ==
    \A p \in Procs :
        InTurn(p) /\ frame[p].result = "object" /\ IsObj(frame[p].updated_memory)
            => LET n == NumEvents(trace[p], {"research"})
                   m == heap[frame[p].updated_memory]
               IN /\ n <= 1
                  /\ (pc[p] = "research"
                        => n = 1 /\ NumLong(m) >= 3 /\ m.auto_research_done # "True")
                  /\ (pc[p] \in {"returned", "raised"} /\ n = 0
                        => ~(NumLong(m) >= 3 /\ m.auto_research_done # "True"))
                  /\ (pc[p] = "returned" /\ ret[p].research_results \in {"RR_full", "RR_defaults"}
                        => ret[p].auto_research_triggered)
                  /\ (pc[p] = "returned" /\ ret[p].auto_research_triggered
                        => /\ n = 1
                           /\ m.auto_research_done = "True"
                           /\ m.research_results = ret[p].research_results
                           /\ ret[p].updated_memory = frame[p].updated_memory)

\* C2 witness: a memory with exactly 2 long fields, a turn that brings a
\* third one, and the research it triggers succeeding
C2_Witness ==
    \E p \in Procs :
        /\ pc[p] = "returned"
        /\ NumLong(frame[p].memory_at_call) = 2
        /\ ret[p].auto_research_triggered
        /\ ret[p].research_results = "RR_full"
        /\ NumEvents(trace[p], {"research"}) = 1

\* C3: once a turn of a session has reported auto_research_triggered =
\* true, no later turn of that session invokes auto_research_project.
C3_AtMostOncePerSession ==
    \A p \in Procs :
        InTurn(p) /\ reported[frame[p].session_id]
            => NumEvents(trace[p], {"research"}) = 0

\* C4: when the extractor returns its error record the turn returns the
\* caller's current_memory unmodified, no updated fields, no missing info,
\* auto_research_triggered = false, empty research_results and the
\* apology, with no Memory Store write and no research call.
C4_ErrorRecordReturn ==
    \A p \in Procs :
        InTurn(p) /\ frame[p].result = "error_record"
            => /\ pc[p] = "returned"
               /\ ret[p].kind = "result"
               /\ ret[p].response = <<"apology">>
               /\ ret[p].updated_memory = frame[p].current_memory
               /\ heap[frame[p].current_memory] = frame[p].memory_at_call
               /\ ret[p].updated_fields = {}
               /\ ret[p].missing_info = "[]"
               /\ ~ret[p].auto_research_triggered
               /\ ret[p].research_results = "{}"
               /\ NumEvents(trace[p], {"save", "research"}) = 0

\* C4 witness: the error record reached from a memory that would have
\* triggered research
C4_Witness ==
    \E p \in Procs :
        /\ pc[p] = "returned"
        /\ frame[p].result = "error_record"
        /\ NumLong(frame[p].memory_at_call) >= 3
        /\ frame[p].memory_at_call.auto_research_done = Absent

\* C5: a turn never raises to its caller, whatever the completion
\* returned.
C5_NeverRaises ==
    \A p \in Procs :
        InTurn(p) /\ NumEvents(trace[p], Completions) > 0 => pc[p] # "raised"

\* the research completion could not be parsed: auto_research_project
\* returned the error record built from the extractor's raw text
ResearchUnparsed(p) == ret[p].research_results \in {"RR_err_raw", "RR_err_empty"}

\* C6: when the research of a turn fails the turn keeps the reply with the
\* note appended, returns auto_research_triggered = false, leaves
\* auto_research_done unset and makes no second write.
C6_FailedResearch ==
    \A p \in Procs :
        InTurn(p) /\ pc[p] = "returned" /\ ResearchUnparsed(p)
            => /\ ~ret[p].auto_research_triggered
               /\ heap[ret[p].updated_memory].auto_research_done # "True"
               /\ ret[p].response[Len(ret[p].response)] = "note"
               /\ NumEvents(trace[p], {"save"}) <= 1

\* C7: one turn calls save_memory at most twice and the completion
\* provider at most twice.
C7_CallBounds ==
    \A p \in Procs :
        /\ NumEvents(trace[p], {"save"}) <= 2
        /\ NumEvents(trace[p], Completions) <= 2

\* C7 witness: a turn that made both writes and both completion calls
C7_Witness ==
    \E p \in Procs :
        /\ pc[p] = "returned"
        /\ NumEvents(trace[p], {"save"}) = 2
        /\ NumEvents(trace[p], Completions) = 2

\* the merge-step write of the turn: the save right after the extraction
MergeWritten(p) == Len(trace[p]) >= 2 /\ trace[p][2] = "save"

\* C8: after a successful extraction the merge-step write happens exactly
\* when the parsed record lists an updated field, and it stores the
\* adopted updated memory under the turn's session id.
C8_MergeWrite ==
    \A p \in Procs :
        InTurn(p) /\ frame[p].result = "object"
            => /\ MergeWritten(p) <=> frame[p].updated_fields # {}
               /\ MergeWritten(p)
                    => _local_memory_cache[frame[p].session_id] = frame[p].updated_memory
               /\ (pc[p] = "returned" /\ ret[p].updated_fields = {}
                    => NumEvents(trace[p], {"save"})
                         = IF ret[p].auto_research_triggered THEN 1 ELSE 0)

\* C8 witness: a turn with updated fields whose merge write stored a
\* memory that differs from the one it was given
C8_Witness ==
    \E p \in Procs :
        /\ pc[p] = "returned"
        /\ frame[p].result = "object"
        /\ trace[p] = <<"complete", "save">>
        /\ heap[_local_memory_cache[frame[p].session_id]] # frame[p].memory_at_call

\* C9: with no OPENROUTER_API_KEY every call of get_ai_response returns
\* the fixed fallback string and raises nothing.
C9_FallbackWhenUnconfigured ==
    ~api_key =>
        \A p \in Procs :
            pc[p] \in {"returned", "raised"}
                => /\ ret[p].exc # "UnboundLocalError"
                   /\ (ret[p].kind = "http"
                        => ret[p].status = "200" /\ ret[p].body.kind = "unconfigured")

\* C10: when the completion call raises, the text get_ai_response returns
\* and the route shows to the user holds no exception text.
C10_FixedFallback ==
    \A p \in Procs :
        ret[p].kind = "http" /\ NumEvents(trace[p], Exceptions) > 0
            => ret[p].body.exc = ""

\* C11: with a backing store configured, a save_memory whose write to the
\* table failed has kept the record in the in-process cache, and a later
\* load_memory of that session id that falls back to the cache returns the
\* record that was saved.
C11_FailedWriteCached ==
    \A s \in SessionPair :
        supabase_configured /\ last_saved[s].outcome = "failed"
            => /\ cache_get(_local_memory_cache, heap, s) = last_saved[s].memory
               /\ (last_call.fn = "load_memory" /\ last_call.session_id = s
                        /\ last_call.source = "fallback"
                    => last_call.result = last_saved[s].memory)

\* C12: with no backing store configured, load_memory of a session id that
\* was never saved returns the empty record, load_memory(s) after saves
\* returns the record of the last save_memory for s, and the store holds
\* one record for each session id that was saved, however often.
C12_CacheUpsert ==
    ~supabase_configured =>
        /\ \A s \in SessionPair :
            /\ cache_get(_local_memory_cache, heap, s) = last_saved[s].memory
            /\ last_saved[s].outcome \in {"none", "cached"}
            /\ last_saved[s].outcome = "none" => last_saved[s].memory = EmptyMem
        /\ last_call.fn = "load_memory"
            => /\ last_call.source = "cache"
               /\ last_call.result = last_saved[last_call.session_id].memory
        /\ Cardinality({s \in SessionPair : _local_memory_cache[s] # NoRef})
             = Cardinality({s \in SessionPair : last_saved[s].outcome # "none"})

\* C12 witness: a load_memory that returns the record of a save which
\* replaced an earlier, different record of the session id, while the other
\* session id was never saved
C12_Witness ==
    /\ ~supabase_configured
    /\ last_call.fn = "load_memory"
    /\ last_saved[last_call.session_id].replaced
    /\ last_call.result = last_saved[last_call.session_id].memory
    /\ last_call.result # EmptyMem
    /\ \E s \in SessionPair : last_saved[s].outcome = "none"

\* the Memory Store record of a session id: the reference and the dict
StoreRecord(s) ==
    [ref |-> _local_memory_cache[s],
     value |-> cache_get(_local_memory_cache, heap, s)]

\* the session id of the turn that p runs or starts in a step
StepSession(p) ==
    IF frame[p].session_id \in SessionPair THEN frame[p].session_id
    ELSE frame'[p].session_id

\* C13: a step of a turn of session id A, the write of the web UI after it
\* included, leaves the Memory Store record and the caller's memory of
\* every other session id B as they were, in every interleaving of the
\* turns of A and B.
C13_SessionsIndependent ==
    [][\A p \in ProcPair, s \in SessionPair :
            pc'[p] # pc[p] /\ StepSession(p) # s
                => /\ StoreRecord(s)' = StoreRecord(s)
                   /\ synopsis_memory'[s] = synopsis_memory[s]
                   /\ heap'[synopsis_memory[s]] = heap[synopsis_memory[s]]]_vars

\* C13 witness: a turn of one session id has written its record while a
\* turn of the other session id, which wrote another record, waits for its
\* research
C13_Witness ==
    \E p, q \in ProcPair :
        /\ pc[p] = "returned" /\ pc[q] = "research"
        /\ frame[p].session_id # frame[q].session_id
        /\ NumEvents(trace[p], {"save"}) > 0
        /\ NumEvents(trace[q], {"save"}) > 0
        /\ StoreRecord(frame[p].session_id).value # StoreRecord(frame[q].session_id).value

\* p wrote to the Memory Store in the step
Wrote(p) == NumEvents(trace'[p], {"save"}) > NumEvents(trace[p], {"save"})

\* C14: save_memory replaces the whole record without locking or version
\* check: every write of a turn leaves the Memory Store holding that
\* turn's memory, whatever another turn of the session id stored before.
C14_WriteReplacesRecord ==
    [][\A p \in ProcPair :
            Wrote(p) => _local_memory_cache'[frame'[p].session_id]
                            = frame'[p].updated_memory]_vars

\* C14 witness (the lost update): two turns of one session id ran at once
\* from the same starting memory, each changed a field the other left
\* alone, both wrote, and the Memory Store holds the memory of one of them
\* without the other's change
C14_Witness ==
    \E p, q \in ProcPair, k, j \in FieldKeys :
        /\ p # q /\ ~in_process
        /\ pc[p] = "returned" /\ pc[q] = "returned"
        /\ frame[p].session_id = frame[q].session_id
        /\ frame[p].memory_at_call = frame[q].memory_at_call
        /\ NumEvents(trace[p], {"save"}) > 0
        /\ NumEvents(trace[q], {"save"}) > 0
        /\ LET m0 == frame[p].memory_at_call
               mp == heap[frame[p].updated_memory]
               mq == heap[frame[q].updated_memory]
           IN /\ mp[k] # m0[k] /\ mq[k] = m0[k]
              /\ mq[j] # m0[j] /\ mp[j] = m0[j]
              /\ StoreRecord(frame[p].session_id).value = mq

\* p has invoked auto_research_project and not failed
Researching(p) ==
    pc[p] = "research" \/ (pc[p] = "returned" /\ ret[p].auto_research_triggered)

\* C15: turns of one session id that run at once do not coordinate the
\* trigger: while one turn is researching or has reported
\* auto_research_triggered = true, another whose adopted memory has at
\* least 3 filled fields and auto_research_done unset invokes
\* auto_research_project too, and reports auto_research_triggered = true
\* when its research succeeds.
C15_UncoordinatedTrigger ==
    \A p, q \in ProcPair :
        /\ p # q /\ InTurn(p) /\ InTurn(q)
        /\ frame[p].session_id = frame[q].session_id
        /\ Researching(p)
        /\ frame[q].result = "object" /\ IsObj(frame[q].updated_memory)
        => LET m == heap[frame[q].updated_memory]
               n == NumEvents(trace[q], {"research"})
           IN /\ (NumLong(m) >= 3 /\ m.auto_research_done # "True" => n = 1)
              /\ (pc[q] = "returned" /\ n = 1
                        /\ ret[q].research_results \in {"RR_full", "RR_defaults"}
                    => ret[q].auto_research_triggered)

\* C15 witness: two turns of one session id that ran at once from the same
\* memory with auto_research_done unset have both invoked
\* auto_research_project and both returned auto_research_triggered = true
C15_Witness ==
    \E p, q \in ProcPair :
        /\ p # q /\ ~in_process
        /\ pc[p] = "returned" /\ pc[q] = "returned"
        /\ frame[p].session_id = frame[q].session_id
        /\ frame[p].memory_at_call = frame[q].memory_at_call
        /\ frame[p].memory_at_call.auto_research_done = Absent
        /\ NumEvents(trace[p], {"research"}) = 1
        /\ NumEvents(trace[q], {"research"}) = 1
        /\ ret[p].auto_research_triggered /\ ret[q].auto_research_triggered
        /\ NumLong(heap[ret[p].updated_memory]) >= 3
        /\ NumLong(heap[ret[q].updated_memory]) >= 3

\* C16: once a turn of a session has stored research_results, a later turn
\* of the session returns, and leaves in the Memory Store, a memory with
\* the same research_results and with auto_research_done = true.
C16_ResearchImmutable ==
    \A p \in Procs :
        /\ InTurn(p) /\ pc[p] = "returned"
        /\ reported[frame[p].session_id]
        /\ frame[p].memory_at_call.auto_research_done = "True"
        /\ frame[p].memory_at_call.research_results # Absent
        => LET before == frame[p].memory_at_call
               returned == heap[ret[p].updated_memory]
               stored == StoreRecord(frame[p].session_id)
           IN /\ returned.research_results = before.research_results
              /\ returned.auto_research_done = "True"
              /\ stored.value.research_results = before.research_results
              /\ stored.value.auto_research_done = "True"

\* C17: the Conversation Handler is the only writer of session memory: a
\* step that changes the Memory Store, or a key of a memory dict, is a step
\* of a turn of handle_natural_conversation.
C17_HandlerOnlyWriter ==
    [][(\/ \E s \in Sessions : StoreRecord(s)' # StoreRecord(s)
        \/ \E o \in DOMAIN heap \cap DOMAIN heap' : heap'[o] # heap[o])
            => \E p \in Procs : pc[p] \in {"extract", "research"}]_vars

\* a section of the document with no paragraph, or with an empty one
Blank(section) ==
    section.body = << >> \/ \E j \in DOMAIN section.body : section.body[j] = ""

\* C18: generate_comprehensive_synopsis emits the 10 section headings in
\* their order for every session memory and research results, no section
\* body is blank, and for the empty memory with no research results every
\* section carries its placeholder text.
C18_AllSectionsFilled ==
    last_call.fn = "generate_comprehensive_synopsis" /\ last_call.done
        => /\ ~last_call.raised
           /\ [i \in DOMAIN last_call.sections |-> last_call.sections[i].heading]
                = Headings
           /\ \A i \in DOMAIN last_call.sections : ~Blank(last_call.sections[i])
           /\ last_call.memory = EmptyRenderMem
                => \A i \in DOMAIN last_call.sections :
                    LET s == last_call.sections[i]
                    IN s.heading \in DOMAIN Placeholders
                        => s.body = <<Placeholders[s.heading]>>

\* the completion returned a text that holds no JSON object
NoJsonObject(o) ==
    /\ o.kind = "return" /\ o.event = "complete"
    /\ o.text.kind \in {"empty", "garbage", "braces", "json_list", "json_scalar"}

\* C19: for every text of the provider that holds no parseable JSON object
\* get_structured_ai_response raises nothing and returns a record with an
\* error key that holds the failure reason and with raw_response equal to
\* the text.
C19_ErrorRecordForUnparsed ==
    last_call.fn = "get_structured_ai_response" /\ NoJsonObject(last_call.response)
        => /\ last_call.result.kind = "dict"
           /\ {"error", "raw_response"} \subseteq last_call.result.body.keys
           /\ Truthy(last_call.result.body.error)
           /\ last_call.result.body.raw_response = last_call.response.text

\* C20: search_github_repos with an empty query returns the empty sequence
\* and makes no request to the search provider.
C20_EmptyQuery ==
    /\ last_call.fn = "search_github_repos"
    /\ last_call.done
    /\ ~Truthy(last_call.query)
    => /\ ~last_call.out.raised
       /\ last_call.out.result = << >>
       /\ last_call.out.search_requests = 0
       /\ last_call.out.detail_fetches = 0

\* C20 witness: a call with the empty query that has returned, when the
\* search provider would have answered a request with items
C20_Witness ==
    /\ last_call.fn = "search_github_repos"
    /\ last_call.done
    /\ last_call.query = "EmptyStr"
    /\ last_call.response.status = "ok"
    /\ Len(last_call.response.items) > 0
    /\ last_call.out.result = << >>

\* a call of search_github_repos with a query has returned or raised
Searched ==
    /\ last_call.fn = "search_github_repos"
    /\ last_call.done
    /\ Truthy(last_call.query)

\* C21: when the search request fails at transport level (network error,
\* timeout, non-2xx status) search_github_repos raises nothing and returns
\* exactly one element, the error string, with no formatted summary.
C21_TransportFailure ==
    Searched /\ last_call.response.status \in TransportFailures
        => /\ ~last_call.out.raised
           /\ last_call.out.result = <<ErrorElement>>
           /\ last_call.out.detail_fetches = 0

\* C21 witness: a search whose request met a non-2xx status has returned
C21_Witness ==
    /\ Searched
    /\ last_call.response.status = "http_error"
    /\ Len(last_call.out.result) = 1

\* the items of the response carry the fields the formatters index
Indexable(response) ==
    /\ response.status = "ok"
    /\ \A i \in DOMAIN response.items : response.items[i] # "no_required"

C23_DegradesGracefully ==
    Searched /\ last_call.response.status = "ok"
        => /\ ~last_call.out.raised
           /\ Len(last_call.out.result)
                  = Min(Len(last_call.response.items), last_call.limit)
           /\ \A i \in DOMAIN last_call.out.result :
                  last_call.out.result[i] # ErrorElement

\* the tiers of the claim, as points per range of stars and of days
StarTier(stars) ==
    IF stars >= 1001 THEN 30 ELSE IF stars >= 101 THEN 20
    ELSE IF stars >= 11 THEN 10 ELSE 0

RecencyTier(days) ==
    IF days <= 29 THEN 25 ELSE IF days <= 89 THEN 15
    ELSE IF days <= 364 THEN 5 ELSE 0

\* C24: analyze_repository_quality returns a score in 0..100 that is the
\* sum of the tier weights (stars 30/20/10, recency 25/15/5, documentation
\* 15, license 10, more than one language 10, more than three topics 10);
\* the level is Excellent exactly from 70, Good for 50 to 69, Fair for 30
\* to 49 and Basic below 30; the empty record scores 0 and is Basic.
C24_QualityScore ==
    last_call.fn = "analyze_repository_quality" /\ last_call.done
        => LET d == last_call.details
               out == last_call.out
               sum == StarTier(d.stars)
                      + (IF d.updated_at.kind = "date"
                         THEN RecencyTier(d.updated_at.days) ELSE 0)
                      + (IF d.has_documentation THEN 15 ELSE 0)
                      + (IF d.license THEN 10 ELSE 0)
                      + (IF d.languages >= 2 THEN 10 ELSE 0)
                      + (IF d.topics >= 4 THEN 10 ELSE 0)
           IN /\ out.score \in 0..100
              /\ out.score = sum
              /\ out.level = "Excellent" <=> out.score >= 70
              /\ out.level = "Good" <=> out.score \in 50..69
              /\ out.level = "Fair" <=> out.score \in 30..49
              /\ out.level = "Basic" <=> out.score < 30
              /\ d = EmptyDetails => out.score = 0 /\ out.level = "Basic"

\* C24 witness: a record analysed to exactly 70 points, and so Excellent
C24_Witness ==
    /\ last_call.fn = "analyze_repository_quality"
    /\ last_call.done
    /\ last_call.details.updated_at = [kind |-> "date", days |-> 89]
    /\ last_call.out.score = 70
    /\ last_call.out.level = "Excellent"

\* the first source of a fallback chain that holds a text
FirstText(sources) ==
    LET filled == {i \in DOMAIN sources : Truthy(sources[i])}
    IN sources[CHOOSE i \in filled : \A j \in filled : i <= j]

\* C25: in the rendered document the Introduction and the Methodology use
\* the research_results text when there is one, otherwise the memory field
\* (objective_scope, process_description), otherwise the placeholder; a
\* research value or memory field that is present but empty falls through
\* to the next source.
C25_FallbackChain ==
    /\ last_call.fn = "generate_comprehensive_synopsis"
    /\ last_call.done
    /\ ~last_call.raised
    => LET memory == last_call.memory
           research_results == research_dict(memory.research_results)
       IN /\ last_call.sections[1].body =
                <<FirstText(<<research_results.introduction, memory.objective_scope,
                              Placeholders["1. INTRODUCTION"]>>)>>
          /\ last_call.sections[5].body =
                <<FirstText(<<research_results.methodology, memory.process_description,
                              Placeholders["5. METHODOLOGY"]>>)>>

\* the turn of p has returned a result to its caller
TurnReturned(p) == pc[p] = "returned" /\ ret[p].kind = "result"

\* C26: after every turn that returns without raising, load_memory of the
\* session equals the updated_memory the turn returned.
C26_StoredEqualsReturned ==
    \A p \in Procs :
        TurnReturned(p)
            => cache_get(_local_memory_cache, heap, frame[p].session_id)
                    = heap[ret[p].updated_memory]

\* research_results is the record of services_v2.py:212-218: the five
\* sections and no error key
FiveSections(rr) == rr \in {"RR_full", "RR_defaults"}

\* C27: whenever a turn sets auto_research_done = true in the memory it
\* returns and stores, research_results of that memory holds the five
\* sections and no error key.
C27_FlagImpliesSections ==
    \A p \in Procs :
        TurnReturned(p) /\ ret[p].auto_research_triggered
            => /\ heap[ret[p].updated_memory].auto_research_done = "True"
               /\ FiveSections(heap[ret[p].updated_memory].research_results)
               /\ FiveSections(cache_get(_local_memory_cache, heap,
                                         frame[p].session_id).research_results)

\* the turn of p listed updated fields and called auto_research_project
MergedAndResearched(p) ==
    /\ InTurn(p)
    /\ frame[p].updated_fields # {}
    /\ \E i \in DOMAIN trace[p] : trace[p][i] = "research"

\* the research of the finished turn of p failed: it raised, or its
\* completion could not be parsed into the research record
ResearchFailed(p) ==
    \/ pc[p] = "raised"
    \/ pc[p] = "returned" /\ ResearchUnparsed(p)

\* C28: in a turn that reports updated fields and triggers research the
\* merged memory is written to the Memory Store before
\* auto_research_project is called; if the research then fails, the store
\* keeps the merged fields with auto_research_done unset.
C28_MergeBeforeResearch ==
    \A p \in Procs :
        MergedAndResearched(p)
            => /\ \E i, j \in DOMAIN trace[p] :
                    i < j /\ trace[p][i] = "save" /\ trace[p][j] = "research"
               /\ ResearchFailed(p)
                    => /\ _local_memory_cache[frame[p].session_id]
                            = frame[p].updated_memory
                       /\ heap[frame[p].updated_memory].auto_research_done # "True"

\* C29: handle_natural_conversation never mutates the caller's
\* current_memory: during and after a turn, also one whose parsed record
\* has no updated_memory key and that triggers research, current_memory
\* holds the keys and values it had when the turn was called.
C29_CurrentMemoryUnchanged ==
    \A p \in Procs :
        InTurn(p) => heap[frame[p].current_memory] = frame[p].memory_at_call

\* C30: in the legacy pipeline the merge of extract_synopsis_info keeps
\* every key of current_memory, overwrites only the synopsis fields for
\* which the provider returned a non-empty value, and leaves current_memory
\* unchanged; so a non-empty field is never emptied, auto_research_done and
\* research_results survive the merge, and once the flag is set the handler
\* never triggers research again.
C30_LegacyMerge ==
    \A p \in Procs :
        last_call.fn = "extract_synopsis_info" /\ InTurn(p)
            => LET before == frame[p].memory_at_call
                   result == last_call.result
                   memory == last_call.memory
                   overwritten == {k \in FieldKeys : result[k] \notin {Absent, "EmptyStr"}}
               IN /\ \A k \in Items(before) : k \in Items(memory)
                  /\ \A k \in overwritten : memory[k] = result[k]
                  /\ \A k \in MemKeys \ overwritten : memory[k] = before[k]
                  /\ \A k \in MemKeys : Truthy(before[k]) => Truthy(memory[k])
                  /\ heap[frame[p].current_memory] = before
                  /\ memory.auto_research_done = before.auto_research_done
                  /\ memory.research_results = before.research_results
                  /\ before.auto_research_done = "True" \/ last_call.researched_before
                        => /\ ~ret[p].auto_research_triggered
                           /\ \A i \in DOMAIN trace[p] : trace[p][i] # "research"
                           /\ heap[ret[p].updated_memory].research_results
                                = before.research_results

\* C30 witness: a turn after the research of the session whose reply has
\* an empty title, a process_description and its own auto_research_done:
\* the title and the flag are kept, the process_description is taken
C30_Witness ==
    \E p \in Procs :
        /\ last_call.fn = "extract_synopsis_info"
        /\ last_call.researched_before
        /\ frame[p].memory_at_call.title = "T11"
        /\ last_call.result.title = "EmptyStr"
        /\ last_call.result.process_description = "T11"
        /\ last_call.result.auto_research_done = "False"
        /\ last_call.memory.title = "T11"
        /\ heap[ret[p].updated_memory].auto_research_done = "True"

====
